---- MODULE Spec2Model ----
(***************************************************************************)
(* Model of the flashcard content generator: the SQLite store              *)
(* (src/database.py), the OpenAI adapter (src/content_generator.py) seen   *)
(* through its return values, and the cycle orchestrator (src/service.py). *)
(*                                                                         *)
(* Topics are sequences of characters so that str.strip() is computed, not *)
(* assumed.  The store is the committed state of the database file; a      *)
(* connection's uncommitted writes live in txn until commit.               *)
(***************************************************************************)
EXTENDS Integers, Sequences, FiniteSets, TLC

VARIABLES
    ideas,            \* table ideas, indexed by id (AUTOINCREMENT: 1, 2, ...)
    content,          \* table content, indexed by id
    txn,              \* uncommitted writes of the connection inside add_content
    now,              \* CURRENT_TIMESTAMP (one-second resolution)
    content_per_run,  \* ContentGeneratorService.content_per_run
    pc,               \* position of the service process
    raw_ideas,        \* generate_and_store_ideas: raw_ideas
    existing_topics,  \* generate_and_store_ideas: existing_topics
    idx,              \* generate_and_store_ideas: position of the for loop
    topic,            \* generate_and_store_ideas: topic (stripped)
    oracle,           \* outcome of the last is_similar_topic call
    new_count,        \* generate_and_store_ideas: new_count
    duplicate_count,  \* generate_and_store_ideas: duplicate_count
    idea_error,       \* generate_and_store_ideas ran its except branch
    ideas_before,     \* history: number of idea rows when the batch started
    pending_ideas,    \* generate_and_store_content: pending_ideas (ids)
    cidx,             \* generate_and_store_content: position of the for loop
    generated_count,  \* generate_and_store_content: generated_count
    failed,           \* history: ideas whose expansion failed in the last run
    content_error,    \* generate_and_store_content ran its except branch
    external,         \* rows inserted by a second writer on the same file
    periodic,         \* main: the mode that runs, and the position of run_periodic
    call,             \* last Database call made by a direct client
    ret,              \* its return value
    succeeded         \* history: raw topics for which add_idea returned an id

vars == <<ideas, content, txn, now, content_per_run, pc, raw_ideas,
          existing_topics, idx, topic, oracle, new_count, duplicate_count,
          idea_error, ideas_before, pending_ideas, cidx, generated_count,
          failed, content_error, external, periodic, call, ret, succeeded>>

storeVars == <<ideas, content, txn>>
ideaVars == <<raw_ideas, existing_topics, idx, topic, oracle, new_count,
              duplicate_count, idea_error, ideas_before>>
contentVars == <<pending_ideas, cidx, generated_count, failed, content_error>>
clientVars == <<call, ret, succeeded>>

(***************************************************************************)
(* Bounds of the model.                                                    *)
(***************************************************************************)
MaxIdeasPerRun == 2     \* largest batch generate_ideas returns (ideas[:count])
MaxContentPerRun == 2   \* largest --content value tried
MaxTime == 1            \* the clock takes the values 0 .. MaxTime
MaxLimit == 2           \* largest limit a direct client passes
MaxContent == 1         \* most content rows a direct client inserts
MaxExternal == 1        \* most rows the second writer inserts

\* Python's None, for an Optional[int]
None == -1

\* the raw topic strings the backend (or a client) may hand over
RawTopics == { <<" ">>, <<"a">>, <<" ", "a", " ">>, <<"A">>, <<"b">> }

\* the oracle's judgement: "a" and "b" overlap, "A" overlaps with nothing
Similar(x, y) == {x, y} = { <<"a">>, <<"b">> }

(***************************************************************************)
(* str.strip()                                                             *)
(***************************************************************************)
RECURSIVE LStrip(_)
LStrip(s) == IF s = <<>> THEN s
             ELSE IF Head(s) = " " THEN LStrip(Tail(s)) ELSE s

RECURSIVE RStrip(_)
RStrip(s) == IF s = <<>> THEN s
             ELSE IF s[Len(s)] = " " THEN RStrip(SubSeq(s, 1, Len(s) - 1)) ELSE s

StripNone(s) == s

Strip(s) == RStrip(LStrip(s))

(***************************************************************************)
(* Database (src/database.py), as functions of the committed tables.       *)
(***************************************************************************)
Range(s) == { s[i] : i \in DOMAIN s }

Topics(tbl) == { tbl[i].topic : i \in DOMAIN tbl }

EmptyTxn == [content |-> <<>>, flagged |-> {}]

\* SELECT COUNT(*) FROM ideas WHERE topic = ? (topic.strip()); count > 0
IdeaExistsRaw(tbl, t) == \E i \in DOMAIN tbl : tbl[i].topic = StripNone(t)

IdeaExists(tbl, t) == \E i \in DOMAIN tbl : tbl[i].topic = Strip(t)

\* INSERT INTO ideas (topic, description): UNIQUE (topic) raises IntegrityError
AddIdeaOk(tbl, t) == ~ \E i \in DOMAIN tbl : tbl[i].topic = Strip(t)

AddIdeaRows(tbl, t) ==
    IF AddIdeaOk(tbl, t)
    THEN Append(tbl, [topic |-> Strip(t), created_at |-> now, content_generated |-> FALSE])
    ELSE tbl

\* cursor.lastrowid, or None on IntegrityError
AddIdeaRet(tbl, t) == IF AddIdeaOk(tbl, t) THEN Len(tbl) + 1 ELSE None

\* ORDER BY created_at ASC; rows with equal keys come out in rowid order
\* (the rows are visited in rowid order and the sorter keeps that order)
Before(tbl, x, y) ==
    \/ tbl[x].created_at < tbl[y].created_at
    \/ tbl[x].created_at = tbl[y].created_at /\ x <= y

RECURSIVE OrderBy(_, _)
OrderBy(tbl, S) ==
    IF S = {} THEN <<>>
    ELSE LET m == CHOOSE x \in S : \A y \in S : Before(tbl, x, y)
         IN  <<m>> \o OrderBy(tbl, S \ {m})

TakeNewest(s, n) == IF n >= Len(s) THEN s ELSE SubSeq(s, Len(s) - n + 1, Len(s))

\* LIMIT n
Take(s, n) == IF n >= Len(s) THEN s ELSE SubSeq(s, 1, n)

AllIds(tbl) == DOMAIN tbl

\* WHERE content_generated = FALSE
PendingIds(tbl) == { i \in DOMAIN tbl : ~ tbl[i].content_generated }

\* "if limit:" is false for None and for 0
LimitGiven(limit) == limit # None /\ limit # 0

GetPendingIdeas(tbl, limit) ==
    LET rows == OrderBy(tbl, PendingIds(tbl))
    IN  IF LimitGiven(limit) THEN Take(rows, limit) ELSE rows

\* get_all_ideas, reduced to the topics the service keeps
GetAllTopics(tbl) == [i \in DOMAIN tbl |-> tbl[Len(tbl) + 1 - i].topic]

\* add_content: the two statements and the commit
InsertContent(t, id) == [t EXCEPT !.content = Append(@, [idea_id |-> id])]

MarkGenerated(t, id) == [t EXCEPT !.flagged = @ \cup {id}]

CommitIdeas(tbl, t) ==
    [i \in DOMAIN tbl |->
        IF i \in t.flagged THEN [tbl[i] EXCEPT !.content_generated = TRUE] ELSE tbl[i]]

CommitContent(ctbl, t) == ctbl \o t.content

\* the connection is dropped with its transaction open: sqlite rolls it back
RollbackIdeas(tbl, t) == tbl

RollbackContentKept(ctbl, t) == ctbl \o t.content

RollbackContent(ctbl, t) == ctbl

GetStats(tbl, ctbl) ==
    LET total == Len(tbl)
        withc == Cardinality({ i \in DOMAIN tbl : tbl[i].content_generated })
    IN  [total_ideas |-> total, ideas_with_content |-> withc,
         pending_ideas |-> total - withc, total_content_pieces |-> Len(ctbl)]

NoCall == [op |-> "none", arg |-> <<>>, limit |-> None, id |-> 0, seq |-> 0]

(***************************************************************************)
(* Initial state: a freshly created database file and service.             *)
(***************************************************************************)
Init ==
    /\ ideas = <<>>
    /\ content = <<>>
    /\ txn = EmptyTxn
    /\ now = 0
    /\ content_per_run \in 0 .. MaxContentPerRun
    /\ pc = "idle"
    /\ raw_ideas = <<>>
    /\ existing_topics = <<>>
    /\ idx = 0
    /\ topic = <<>>
    /\ oracle = "none"
    /\ new_count = 0
    /\ duplicate_count = 0
    /\ idea_error = FALSE
    /\ ideas_before = 0
    /\ pending_ideas = <<>>
    /\ cidx = 0
    /\ generated_count = 0
    /\ failed = {}
    /\ content_error = "none"
    /\ external = 0
    /\ periodic = "main"
    /\ call = NoCall
    /\ ret = <<>>
    /\ succeeded = {}

\* the clock advances.  Only the direct client sees it move: within the
\* service runs all rows tie on created_at, so that the order of
\* get_pending_ideas rests on the rowid alone
Tick ==
    /\ now < MaxTime
    /\ now' = now + 1
    /\ UNCHANGED <<storeVars, content_per_run, pc, ideaVars, contentVars, external, periodic, clientVars>>

(***************************************************************************)
(* A client that calls the Database methods directly.                      *)
(***************************************************************************)
svcVars == <<content_per_run, pc, ideaVars, contentVars, external, periodic>>

DbAddIdea ==
    \E t \in RawTopics :
        /\ ideas' = AddIdeaRows(ideas, t)
        /\ call' = [op |-> "add_idea", arg |-> t, limit |-> None, id |-> 0,
                    seq |-> 1 - call.seq]
        /\ ret' = <<AddIdeaRet(ideas, t)>>
        /\ succeeded' = IF AddIdeaRet(ideas, t) # None THEN succeeded \cup {t} ELSE succeeded
        /\ UNCHANGED <<content, txn, now, svcVars>>

DbIdeaExists ==
    \E t \in RawTopics :
        /\ call' = [op |-> "idea_exists", arg |-> t, limit |-> None, id |-> 0,
                    seq |-> 1 - call.seq]
        /\ ret' = <<IdeaExists(ideas, t)>>
        /\ UNCHANGED <<storeVars, now, svcVars, succeeded>>

DbGetPendingIdeas ==
    \E k \in {None} \cup (0 .. MaxLimit) :
        /\ call' = [op |-> "get_pending_ideas", arg |-> <<>>, limit |-> k, id |-> 0,
                    seq |-> 1 - call.seq]
        /\ ret' = GetPendingIdeas(ideas, k)
        /\ UNCHANGED <<storeVars, now, svcVars, succeeded>>

DbAddContent ==
    \E i \in DOMAIN ideas :
        /\ Len(content) < MaxContent
        /\ LET t == MarkGenerated(InsertContent(EmptyTxn, i), i)
           IN  /\ ideas' = CommitIdeas(ideas, t)
               /\ content' = CommitContent(content, t)
        /\ call' = [op |-> "add_content", arg |-> <<>>, limit |-> None, id |-> i,
                    seq |-> 1 - call.seq]
        /\ ret' = <<Len(content) + 1>>
        /\ UNCHANGED <<txn, now, svcVars, succeeded>>

NextDb == Tick \/ DbAddIdea \/ DbIdeaExists \/ DbGetPendingIdeas \/ DbAddContent

\* no service runs beside the client: its batch size plays no part
InitDb == Init /\ content_per_run = 0

SpecDb == InitDb /\ [][NextDb]_vars

(***************************************************************************)
(* C1: once add_idea(T) has returned an id, idea_exists(T) is true in      *)
(* every later state and every later add_idea(T) returns None and adds no  *)
(* row to ideas.                                                           *)
(***************************************************************************)
C1_ExistsAfterAdd == \A t \in succeeded : IdeaExists(ideas, t)

C1_SecondAddIsDuplicate ==
    \A t \in succeeded :
        (call'.seq # call.seq /\ call'.op = "add_idea" /\ call'.arg = t)
            => (ret' = <<None>> /\ ideas' = ideas)

\* C1: after add_idea(T) succeeded, idea_exists(T) stays true and a later
\* add_idea(T) returns None and adds no row
C1_AddIdeaOnce == [](C1_ExistsAfterAdd) /\ [][C1_SecondAddIsDuplicate]_vars

C1_Witness ==
    /\ call.op = "add_idea" /\ ret = <<None>>
    /\ call.arg \in succeeded
    /\ Len(ideas) >= 2

(***************************************************************************)
(* C6: get_pending_ideas(limit=K) returns at most K ideas, for every K     *)
(* including 0, all of them pending, the oldest ones, in strictly          *)
(* ascending creation-time order.                                          *)
(***************************************************************************)
C6_PendingLimitedStrictlyAscending ==
    (call.op = "get_pending_ideas" /\ call.limit # None) =>
        /\ Len(ret) <= call.limit
        /\ \A j \in DOMAIN ret : ret[j] \in PendingIds(ideas)
        /\ \A j, k \in DOMAIN ret :
              j < k => ideas[ret[j]].created_at < ideas[ret[k]].created_at
        /\ \A i \in PendingIds(ideas) \ Range(ret) :
              \A j \in DOMAIN ret : ideas[ret[j]].created_at <= ideas[i].created_at

(***************************************************************************)
(* ContentGenerator (src/content_generator.py), seen through its results.  *)
(***************************************************************************)
\* one element of the parsed ideas array: a dict whose topic is a string, or
\* anything else (not a dict, topic or description null), on which
\* idea.get(...).strip() raises AttributeError
Candidates ==
    { [kind |-> "dict", topic |-> t] : t \in RawTopics }
        \cup { [kind |-> "bad", topic |-> <<>>] }

RECURSIVE SeqsUpTo(_, _)
SeqsUpTo(S, n) ==
    IF n = 0 THEN { <<>> }
    ELSE LET shorter == SeqsUpTo(S, n - 1)
         IN  shorter \cup { Append(q, x) : q \in { r \in shorter : Len(r) = n - 1 }, x \in S }

\* generate_ideas: ideas[:count], or [] on any failure
Batches == SeqsUpTo(Candidates, MaxIdeasPerRun)

\* the chat completion of is_similar_topic: a parsed verdict, or an exception
OracleOutcomes == { "ok", "fail" }

IsSimilarFailClosed(new_topic, existing, outcome) ==
    IF existing = <<>> THEN FALSE
    ELSE IF outcome = "ok" THEN \E i \in DOMAIN existing : Similar(new_topic, existing[i])
    ELSE TRUE

\* is_similar_topic: False without a call when the list is empty, the verdict
\* when the call succeeds, False when it raises
IsSimilarTopic(new_topic, existing, outcome) ==
    IF existing = <<>> THEN FALSE
    ELSE IF outcome = "ok" THEN \E i \in DOMAIN existing : Similar(new_topic, existing[i])
    ELSE FALSE

\* generate_content: "ok" a dict with a string title and content, "none" None
\* (backend error, unparsable JSON, a missing key), "null_field" a dict that
\* has both keys but a null title or content
ContentOutcomes == { "ok", "none", "null_field" }

(***************************************************************************)
(* ContentGeneratorService (src/service.py).                               *)
(***************************************************************************)
\* where control goes when the try block of a pipeline raises
IdeasUncaught == "crashed"

IdeasExcept == "i_done"

ContentExcept == "c_done"

\* run_cycle, called by run_once, by run_periodic on start-up or by the
\* scheduler: first stats snapshot (get_stats is only logged)
RunCycle ==
    /\ pc = "idle"
    /\ periodic \in { "main", "startup", "loop" }
    /\ pc' = "ideas"
    /\ UNCHANGED <<storeVars, now, content_per_run, ideaVars, contentVars, external, periodic, clientVars>>

\* generate_and_store_ideas up to the for loop
GenerateIdeas ==
    /\ pc = "ideas"
    /\ \E batch \in Batches :
        /\ raw_ideas' = batch
        /\ IF batch = <<>>
           THEN /\ pc' = "i_done"
                /\ UNCHANGED <<existing_topics, ideas_before>>
           ELSE /\ pc' = "i_loop"
                /\ existing_topics' = GetAllTopics(ideas)
                /\ ideas_before' = Len(ideas)
    /\ idx' = 1
    /\ new_count' = 0
    /\ duplicate_count' = 0
    /\ idea_error' = FALSE
    /\ topic' = <<>>
    /\ oracle' = "none"
    /\ UNCHANGED <<storeVars, now, content_per_run, contentVars, external, periodic, clientVars>>

\* one iteration of the for loop, up to the exact-match tier
ProcessCandidate ==
    /\ pc = "i_loop"
    /\ idx <= Len(raw_ideas)
    /\ oracle' = "none"
    /\ LET idea == raw_ideas[idx]
           t == Strip(idea.topic)
       IN  IF idea.kind = "bad"
           THEN /\ pc' = IdeasExcept
                /\ idea_error' = TRUE
                /\ UNCHANGED <<idx, topic, duplicate_count>>
           ELSE IF t = <<>>
           THEN /\ idx' = idx + 1
                /\ topic' = t
                /\ UNCHANGED <<pc, idea_error, duplicate_count>>
           ELSE IF IdeaExists(ideas, t)
           THEN /\ duplicate_count' = duplicate_count + 1
                /\ idx' = idx + 1
                /\ topic' = t
                /\ UNCHANGED <<pc, idea_error>>
           ELSE /\ topic' = t
                /\ pc' = "i_similar"
                /\ UNCHANGED <<idx, idea_error, duplicate_count>>
    /\ UNCHANGED <<storeVars, now, content_per_run, raw_ideas, existing_topics,
                   new_count, ideas_before, contentVars, external, periodic, clientVars>>

\* the semantic tier
CheckSimilar ==
    /\ pc = "i_similar"
    /\ \E outcome \in OracleOutcomes :
        /\ oracle' = IF existing_topics = <<>> THEN "skipped" ELSE outcome
        /\ IF IsSimilarTopic(topic, existing_topics, outcome)
           THEN /\ duplicate_count' = duplicate_count + 1
                /\ idx' = idx + 1
                /\ pc' = "i_loop"
           ELSE /\ pc' = "i_store"
                /\ UNCHANGED <<duplicate_count, idx>>
    /\ UNCHANGED <<storeVars, now, content_per_run, raw_ideas, existing_topics, topic,
                   new_count, idea_error, ideas_before, contentVars, external, periodic, clientVars>>

\* what the loop does with the id add_idea returned
AppendAcceptedNever(topics, id, t) == topics

AppendAccepted(topics, id, t) == IF id # None THEN Append(topics, t) ELSE topics

CountDuplicateNever(n, id) == n

CountDuplicate(n, id) == IF id # None THEN n ELSE n + 1

\* add_idea and the bookkeeping after it
StoreIdea ==
    /\ pc = "i_store"
    /\ LET idea_id == AddIdeaRet(ideas, topic)
       IN  /\ ideas' = AddIdeaRows(ideas, topic)
           /\ existing_topics' = AppendAccepted(existing_topics, idea_id, topic)
           /\ new_count' = IF idea_id # None THEN new_count + 1 ELSE new_count
           /\ duplicate_count' = CountDuplicate(duplicate_count, idea_id)
    /\ idx' = idx + 1
    /\ pc' = "i_loop"
    /\ UNCHANGED <<content, txn, now, content_per_run, raw_ideas, topic, oracle,
                   idea_error, ideas_before, contentVars, external, periodic, clientVars>>

\* the for loop is exhausted: "Idea generation complete"
IdeasComplete ==
    /\ pc = "i_loop"
    /\ idx > Len(raw_ideas)
    /\ pc' = "i_done"
    /\ UNCHANGED <<storeVars, now, content_per_run, ideaVars, contentVars, external, periodic, clientVars>>

\* generate_and_store_ideas returns; get_pending_ideas opens the next stage
GetPending ==
    /\ pc = "i_done"
    /\ pending_ideas' = GetPendingIdeas(ideas, content_per_run)
    /\ pc' = IF pending_ideas' = <<>> THEN "c_done" ELSE "c_loop"
    /\ cidx' = 1
    /\ generated_count' = 0
    /\ failed' = {}
    /\ content_error' = "none"
    /\ raw_ideas' = <<>>
    /\ existing_topics' = <<>>
    /\ idx' = 0
    /\ topic' = <<>>
    /\ oracle' = "none"
    /\ new_count' = 0
    /\ duplicate_count' = 0
    /\ ideas_before' = 0
    /\ UNCHANGED <<storeVars, now, content_per_run, idea_error, external, periodic, clientVars>>

\* one iteration of the content loop, up to the call of add_content
GenerateContent ==
    /\ pc = "c_loop"
    /\ cidx <= Len(pending_ideas)
    /\ \E result \in ContentOutcomes :
        CASE result = "ok" ->
                /\ pc' = "c_insert"
                /\ UNCHANGED <<cidx, failed, content_error>>
          [] result = "none" ->
                /\ cidx' = cidx + 1
                /\ failed' = failed \cup { pending_ideas[cidx] }
                /\ UNCHANGED <<pc, content_error>>
          [] result = "null_field" ->
                \* INSERT raises IntegrityError (NOT NULL); nothing was written
                /\ pc' = ContentExcept
                /\ failed' = failed \cup { pending_ideas[cidx] }
                /\ content_error' = "IntegrityError"
                /\ UNCHANGED cidx
    /\ UNCHANGED <<storeVars, now, content_per_run, ideaVars, pending_ideas,
                   generated_count, external, periodic, clientVars>>

\* add_content: the statements write into the connection's transaction
AddContentInsert ==
    /\ pc = "c_insert"
    /\ txn' = InsertContent(txn, pending_ideas[cidx])
    /\ pc' = "c_update"
    /\ UNCHANGED <<ideas, content, now, content_per_run, ideaVars, contentVars, external, periodic, clientVars>>

AddContentUpdate ==
    /\ pc = "c_update"
    /\ txn' = MarkGenerated(txn, pending_ideas[cidx])
    /\ pc' = "c_commit"
    /\ UNCHANGED <<ideas, content, now, content_per_run, ideaVars, contentVars, external, periodic, clientVars>>

AddContentCommit ==
    /\ pc = "c_commit"
    /\ ideas' = CommitIdeas(ideas, txn)
    /\ content' = CommitContent(content, txn)
    /\ txn' = EmptyTxn
    /\ generated_count' = generated_count + 1
    /\ cidx' = cidx + 1
    /\ pc' = "c_loop"
    /\ UNCHANGED <<now, content_per_run, ideaVars, pending_ideas, failed, content_error,
                   external, periodic, clientVars>>

\* a statement or the commit of add_content raises (disk full, file locked):
\* the connection is dropped with its transaction open, which rolls it back
AddContentFault ==
    /\ pc \in { "c_update", "c_commit" }
    /\ ideas' = RollbackIdeas(ideas, txn)
    /\ content' = RollbackContent(content, txn)
    /\ txn' = EmptyTxn
    /\ failed' = failed \cup { pending_ideas[cidx] }
    /\ content_error' = "OperationalError"
    /\ pc' = ContentExcept
    /\ UNCHANGED <<now, content_per_run, ideaVars, pending_ideas, cidx,
                   generated_count, external, periodic, clientVars>>

\* the content loop is exhausted: "Content generation complete"
ContentComplete ==
    /\ pc = "c_loop"
    /\ cidx > Len(pending_ideas)
    /\ pc' = "c_done"
    /\ UNCHANGED <<storeVars, now, content_per_run, ideaVars, contentVars, external, periodic, clientVars>>

\* run_cycle: final stats snapshot, "Cycle complete"
FinalStats ==
    /\ pc = "c_done"
    /\ pc' = "idle"
    /\ pending_ideas' = <<>>
    /\ cidx' = 0
    /\ generated_count' = 0
    \* the start-up cycle returns into the while loop of run_periodic
    /\ periodic' = IF periodic = "startup" THEN "loop" ELSE periodic
    /\ UNCHANGED <<storeVars, now, content_per_run, ideaVars, failed, content_error, external, clientVars>>

Next ==
    \/ RunCycle
    \/ GenerateIdeas
    \/ ProcessCandidate
    \/ CheckSimilar
    \/ StoreIdea
    \/ IdeasComplete
    \/ GetPending
    \/ GenerateContent
    \/ AddContentInsert
    \/ AddContentUpdate
    \/ AddContentCommit
    \/ AddContentFault
    \/ ContentComplete
    \/ FinalStats

\* the service alone on its database file
Spec == Init /\ [][Next]_vars

\* cycles recur forever (the scheduler of run_periodic, or whatever invokes
\* run_once again and again): a cycle that can take a step takes it, and an
\* idle service is started again
Steps ==
    \/ RunCycle \/ GenerateIdeas \/ ProcessCandidate \/ CheckSimilar \/ StoreIdea
    \/ IdeasComplete \/ GetPending \/ GenerateContent \/ AddContentInsert
    \/ AddContentUpdate \/ AddContentCommit \/ AddContentFault \/ ContentComplete
    \/ FinalStats

FairSpec == Spec /\ WF_vars(Steps)

\* a second writer on the same database file (another service instance)
ExternalAddIdea ==
    \E t \in RawTopics :
        /\ external < MaxExternal
        /\ AddIdeaOk(ideas, t)
        /\ ideas' = AddIdeaRows(ideas, t)
        /\ external' = external + 1
        /\ UNCHANGED <<content, txn, now, content_per_run, pc, ideaVars, contentVars,
                       periodic, clientVars>>

NextRace == Next \/ ExternalAddIdea

\* one service configuration is enough to meet the second writer: the
\* service was started with --content 1
InitRace == Init /\ content_per_run = 1

SpecRace == InitRace /\ [][NextRace]_vars

(***************************************************************************)
(* Periodic mode (run_periodic) and the interrupt of the process.          *)
(***************************************************************************)
\* main: --mode periodic enters run_periodic, which registers the job and
\* calls run_cycle at once
RunPeriodic ==
    /\ periodic = "main"
    /\ pc = "idle"
    /\ periodic' = "startup"
    /\ UNCHANGED <<storeVars, now, content_per_run, pc, ideaVars, contentVars, external, clientVars>>

\* SIGINT: KeyboardInterrupt is raised in the main thread wherever it stands.
\* It is not an Exception, so the except clauses of the two pipelines let it
\* pass; the try of run_periodic encloses the while loop (and with it the
\* scheduled cycles) but not the start-up call of run_cycle
Interrupt ==
    /\ periodic \in { "startup", "loop" }
    /\ periodic' = IF periodic = "loop" THEN "stopped" ELSE "killed"
    /\ pc' = IF pc = "idle" THEN pc ELSE "interrupted"
    /\ ideas' = RollbackIdeas(ideas, txn)
    /\ content' = RollbackContent(content, txn)
    /\ txn' = EmptyTxn
    /\ UNCHANGED <<now, content_per_run, ideaVars, contentVars, external, clientVars>>

NextPeriodic == Next \/ RunPeriodic \/ Interrupt

\* one service configuration is enough to meet the interrupt: --content 1
InitPeriodic == Init /\ content_per_run = 1

SpecPeriodic == InitPeriodic /\ [][NextPeriodic]_vars

TypeOK ==
    /\ pc \in { "idle", "ideas", "i_loop", "i_similar", "i_store", "i_done",
                "c_loop", "c_insert", "c_update", "c_commit", "c_done", "crashed",
                "interrupted" }
    /\ periodic \in { "main", "startup", "loop", "stopped", "killed" }
    /\ now \in 0 .. MaxTime
    /\ Len(raw_ideas) <= MaxIdeasPerRun

(***************************************************************************)
(* Vocabulary of the properties.                                           *)
(***************************************************************************)
IdeaStage == { "i_loop", "i_similar", "i_store" }

ContentStage == { "c_loop", "c_insert", "c_update", "c_commit" }

\* the ids the ideas table can ever hold: one per distinct stripped topic
IdeaIds == 1 .. Cardinality({ Strip(t) : t \in RawTopics } \ { <<>> })

\* rows of content that reference idea i
ContentOf(ctbl, i) == { c \in DOMAIN ctbl : ctbl[c].idea_id = i }

\* topics accepted so far in the running batch
AcceptedInBatch == { ideas[i].topic : i \in (ideas_before + 1) .. Len(ideas) }

PersistedBeforeBatch == { ideas[i].topic : i \in 1 .. ideas_before }

PendingRow(t, at) == [topic |-> t, created_at |-> at, content_generated |-> FALSE]

(***************************************************************************)
(* C2: within one run of generate_and_store_ideas the candidates are       *)
(* processed in arrival order, the list handed to the similarity oracle    *)
(* holds every topic persisted before the batch and every topic accepted   *)
(* earlier in the batch, and a candidate the oracle judges similar to an   *)
(* earlier accepted sibling is counted as duplicate and not persisted.     *)
(***************************************************************************)
C2_OracleListComplete ==
    pc = "i_similar" =>
        /\ topic = Strip(raw_ideas[idx].topic)
        /\ Range(existing_topics) = PersistedBeforeBatch \cup AcceptedInBatch
        /\ AcceptedInBatch \subseteq { Strip(raw_ideas[j].topic) : j \in 1 .. (idx - 1) }

C2_ArrivalOrder ==
    (pc \in IdeaStage /\ pc' \in IdeaStage) => (idx' = idx \/ idx' = idx + 1)

C2_SimilarSiblingRejected ==
    (/\ pc = "i_similar"
     /\ oracle' = "ok"
     /\ \E a \in AcceptedInBatch : Similar(topic, a))
        => /\ ideas' = ideas
           /\ duplicate_count' = duplicate_count + 1
           /\ new_count' = new_count
           /\ pc' = "i_loop"

\* C2: arrival order, a complete oracle list, similar siblings rejected
C2_BatchOrderAndSiblings ==
    [](C2_OracleListComplete) /\ [][C2_ArrivalOrder /\ C2_SimilarSiblingRejected]_vars

C2_Witness ==
    /\ pc = "i_loop"
    /\ oracle = "ok"
    /\ idx = 3
    /\ topic = <<"b">>
    /\ <<"a">> \in AcceptedInBatch
    /\ <<"b">> \notin Topics(ideas)
    /\ duplicate_count = 1

(***************************************************************************)
(* C3: when the similarity oracle call fails for a candidate whose         *)
(* stripped topic is non-empty and not in the store, the candidate is not  *)
(* rejected, the batch goes on, and the candidate is persisted as a new    *)
(* pending idea.                                                           *)
(***************************************************************************)
C3_FailureNotSimilar ==
    (pc = "i_similar" /\ oracle' = "fail")
        => /\ pc' = "i_store"
           /\ duplicate_count' = duplicate_count
           /\ idea_error' = FALSE

C3_FailurePersists ==
    (/\ pc = "i_store" /\ pc' # pc
     /\ oracle = "fail"
     /\ topic # <<>>
     /\ ~ IdeaExists(ideas, topic))
        => /\ ideas' = Append(ideas, PendingRow(topic, now))
           /\ new_count' = new_count + 1
           /\ duplicate_count' = duplicate_count
           /\ pc' = "i_loop"
           /\ idx' = idx + 1
           /\ idea_error' = FALSE

\* C3: a failed oracle call neither rejects the candidate nor aborts the
\* batch; the candidate is persisted
C3_OracleFailsOpen == [][C3_FailureNotSimilar /\ C3_FailurePersists]_vars

C3_Witness ==
    /\ pc = "i_loop"
    /\ oracle = "fail"
    /\ new_count >= 1
    /\ ideas # <<>>
    /\ ideas[Len(ideas)].topic = topic
    /\ Len(ideas) > ideas_before

(***************************************************************************)
(* C4: once add_content has completed for an idea, its content_generated   *)
(* flag never returns to false, get_pending_ideas never returns it again,  *)
(* and exactly one content row references it.                              *)
(***************************************************************************)
C4_OneContent ==
    \A i \in DOMAIN ideas :
        ideas[i].content_generated => Cardinality(ContentOf(content, i)) = 1

C4_FlagStays ==
    \A i \in DOMAIN ideas :
        ideas[i].content_generated => (i \in DOMAIN ideas' /\ ideas'[i].content_generated)

C4_NeverSelectedAgain ==
    (pc = "i_done" /\ pc' # pc) =>
        \A j \in DOMAIN pending_ideas' : ~ ideas[pending_ideas'[j]].content_generated

\* C4: a generated idea is never pending again and has exactly one content row
C4_GeneratedOnce == [](C4_OneContent) /\ [][C4_FlagStays /\ C4_NeverSelectedAgain]_vars

C4_Witness ==
    /\ pc = "c_loop"
    /\ cidx = 1
    /\ \E i \in DOMAIN ideas :
          /\ ideas[i].content_generated
          /\ i \notin Range(pending_ideas)
          /\ Cardinality(ContentOf(content, i)) = 1

(***************************************************************************)
(* C5: in every state a query can observe, an idea has a content row if    *)
(* and only if its content_generated flag is true; when add_content fails  *)
(* part-way neither of its writes is visible.                              *)
(***************************************************************************)
C5_ContentIffFlag ==
    \A i \in DOMAIN ideas : ideas[i].content_generated <=> ContentOf(content, i) # {}

C5_FailureWritesNothing ==
    (content_error' = "OperationalError" /\ pc \in { "c_update", "c_commit" } /\ pc' # pc)
        => (ideas' = ideas /\ content' = content)

\* C5: content row and content_generated flag are visible together or not at all
C5_AtomicAddContent == [](C5_ContentIffFlag) /\ [][C5_FailureWritesNothing]_vars

C5_Witness ==
    /\ pc = "c_done"
    /\ content_error = "OperationalError"
    /\ generated_count >= 1
    /\ \E i \in failed : ~ ideas[i].content_generated /\ ContentOf(content, i) = {}

(***************************************************************************)
(* C7: an idea selected by generate_and_store_content whose article        *)
(* generation fails stays pending, gets no content row, leaves the stats   *)
(* unchanged, no exception leaves the pipeline, and the idea is selected   *)
(* again in a later cycle.                                                 *)
(***************************************************************************)
C7_FailureLeavesIdea ==
    \A i \in failed' \ failed :
        /\ i \in PendingIds(ideas')
        /\ ContentOf(content', i) = {}
        /\ GetStats(ideas', content') = GetStats(ideas, content)
        /\ pc' \in { "c_loop", "c_done" }

C7_FailedStayPending ==
    \A i \in failed : i \in PendingIds(ideas) /\ ContentOf(content, i) = {}

C7_SelectedAgain ==
    (pc = "i_done" /\ pc' # pc) => failed \subseteq Range(pending_ideas')

\* C7: a failed expansion leaves the idea pending, without content, the stats
\* unchanged, raises nothing, and the next cycle selects the idea again
C7_FailedIdeaRetried ==
    /\ [](C7_FailedStayPending /\ pc # "crashed")
    /\ [][C7_FailureLeavesIdea /\ C7_SelectedAgain]_vars

C7_Witness ==
    /\ pc = "i_done"
    /\ content_per_run = 1
    /\ failed = {1}
    /\ Cardinality(PendingIds(ideas)) >= 2
    /\ content = <<>>

(***************************************************************************)
(* C8: a candidate whose stripped topic is already in the store is counted *)
(* as one duplicate and leaves the ideas table unchanged, without an       *)
(* exception, whether the exact-match tier or the UNIQUE constraint at     *)
(* insert catches it.                                                      *)
(***************************************************************************)
C8_ExactMatchTier ==
    (/\ pc = "i_loop" /\ idx <= Len(raw_ideas)
     /\ (pc' # pc \/ idx' # idx)
     /\ raw_ideas[idx].kind = "dict"
     /\ Strip(raw_ideas[idx].topic) # <<>>
     /\ IdeaExists(ideas, raw_ideas[idx].topic))
        => /\ ideas' = ideas
           /\ duplicate_count' = duplicate_count + 1
           /\ new_count' = new_count
           /\ idx' = idx + 1
           /\ pc' = "i_loop"
           /\ idea_error' = FALSE

C8_UniqueConstraint ==
    (pc = "i_store" /\ pc' # pc /\ IdeaExists(ideas, topic))
        => /\ ideas' = ideas
           /\ duplicate_count' = duplicate_count + 1
           /\ new_count' = new_count
           /\ idx' = idx + 1
           /\ pc' = "i_loop"
           /\ idea_error' = FALSE

\* C8: a candidate already in the store counts as one duplicate and leaves
\* the ideas table unchanged, at either tier
C8_DuplicateLeavesStore == [][C8_ExactMatchTier /\ C8_UniqueConstraint]_vars

C8_Witness ==
    /\ pc = "i_loop"
    /\ oracle # "none"
    /\ topic \in Topics(ideas)
    /\ topic \notin Range(existing_topics)
    /\ ~ IsSimilarTopic(topic, existing_topics, "ok")
    /\ duplicate_count >= 1

(***************************************************************************)
(* C9: every candidate of a batch whose stripped topic is non-empty, not   *)
(* in the store and not judged similar is persisted as a new pending idea, *)
(* the accepted counter equals the number of rows added, and N candidates  *)
(* with distinct topics and no similarity conflict on an empty store leave *)
(* total_ideas = N and pending_ideas = N.                                  *)
(***************************************************************************)
Wanted(j) ==
    /\ raw_ideas[j].kind = "dict"
    /\ Strip(raw_ideas[j].topic) # <<>>

C9_EveryNewCandidatePersisted ==
    (pc = "i_done" /\ raw_ideas # <<>>) =>
        /\ \A j \in DOMAIN raw_ideas :
              Wanted(j) =>
                  \/ Strip(raw_ideas[j].topic) \in Topics(ideas)
                  \/ \E e \in Topics(ideas) : Similar(Strip(raw_ideas[j].topic), e)
        /\ new_count = Len(ideas) - ideas_before
        /\ (/\ ideas_before = 0
            /\ \A j \in DOMAIN raw_ideas : Wanted(j)
            /\ \A j, k \in DOMAIN raw_ideas :
                  j # k => /\ Strip(raw_ideas[j].topic) # Strip(raw_ideas[k].topic)
                           /\ ~ Similar(Strip(raw_ideas[j].topic), Strip(raw_ideas[k].topic)))
              => /\ GetStats(ideas, content).total_ideas = Len(raw_ideas)
                 /\ GetStats(ideas, content).pending_ideas = Len(raw_ideas)

(***************************************************************************)
(* C10: an exception inside idea generation does not keep content          *)
(* expansion from running in the same cycle, an exception inside content   *)
(* expansion does not undo ideas persisted earlier nor crash the process,  *)
(* and every cycle reaches its final stats snapshot.                       *)
(***************************************************************************)
C10_StageOrder ==
    /\ pc = "ideas" => pc' \in { "ideas", "i_loop", "i_done" }
    /\ pc \in IdeaStage => pc' \in IdeaStage \cup { "i_done" }
    /\ pc = "i_done" => pc' \in { "i_done", "c_loop", "c_done" }
    /\ pc \in ContentStage => pc' \in ContentStage \cup { "c_done" }
    /\ pc = "c_done" => pc' \in { "c_done", "idle" }

C10_IdeasKept ==
    pc \in ContentStage =>
        /\ Len(ideas') = Len(ideas)
        /\ \A i \in DOMAIN ideas : ideas'[i].topic = ideas[i].topic

\* how far the running cycle has come
CycleRank ==
    CASE pc = "ideas" -> 0
      [] pc = "i_loop" -> 3 * idx + 1
      [] pc = "i_similar" -> 3 * idx + 2
      [] pc = "i_store" -> 3 * idx + 3
      [] pc = "i_done" -> 3 * (MaxIdeasPerRun + 2)
      [] pc = "c_loop" -> 3 * (MaxIdeasPerRun + 2) + 4 * cidx + 1
      [] pc = "c_insert" -> 3 * (MaxIdeasPerRun + 2) + 4 * cidx + 2
      [] pc = "c_update" -> 3 * (MaxIdeasPerRun + 2) + 4 * cidx + 3
      [] pc = "c_commit" -> 3 * (MaxIdeasPerRun + 2) + 4 * cidx + 4
      [] pc = "c_done" -> 3 * (MaxIdeasPerRun + 2) + 4 * (Len(ideas) + 2)
      [] OTHER -> 3 * (MaxIdeasPerRun + 2) + 4 * (Len(ideas) + 2) + 1

\* every step of a running cycle brings it closer to its final snapshot
C10_CycleAdvances == (pc # "idle" /\ now' = now) => CycleRank' > CycleRank

\* C10: no pipeline exception crashes the cycle, skips the other pipeline or
\* undoes persisted ideas; every cycle advances to its final snapshot
C10_PipelinesIsolated ==
    /\ [](pc # "crashed" /\ (pc # "idle" => ENABLED Steps))
    /\ [][C10_StageOrder /\ C10_IdeasKept /\ C10_CycleAdvances]_vars

C10_Witness ==
    /\ pc = "idle"
    /\ idea_error
    /\ content_error # "none"
    /\ Len(ideas) >= 1

(***************************************************************************)
(* C11: with cycles recurring forever and a batch size of at least 1,      *)
(* every pending idea is eventually selected for expansion by              *)
(* generate_and_store_content, whatever happens to the ideas ahead of it.  *)
(***************************************************************************)
\* idea i sits in the batch get_pending_ideas handed to the content loop
C11_Selected(i) == pc \in ContentStage /\ i \in Range(pending_ideas)

C11_Pending(i) == i \in DOMAIN ideas /\ ~ ideas[i].content_generated

\* C11: no pending idea is starved when cycles recur forever and K >= 1
C11_NoPendingIdeaStarved ==
    \A i \in IdeaIds :
        [](C11_Pending(i) /\ content_per_run >= 1 => <>C11_Selected(i))

(***************************************************************************)
(* C12: in periodic mode an interrupt that arrives while a cycle is in     *)
(* progress does not abort the cycle: the cycle runs to its final stats    *)
(* snapshot and only then the timer loop stops, for the start-up cycle as  *)
(* for the scheduled ones, and no two cycles overlap.                      *)
(***************************************************************************)
\* run_periodic has ended, through its except clause or with the exception
C12_LoopOver == periodic \in { "stopped", "killed" }

\* C12: when the timer loop is over no cycle is left unfinished
C12_InterruptLetsCycleFinish ==
    /\ pc # "interrupted"
    /\ C12_LoopOver => (pc = "idle" /\ txn = EmptyTxn)

(***************************************************************************)
(* C13: in every state reached through cycles of the service the topics of *)
(* the persisted ideas are non-empty, free of surrounding whitespace and   *)
(* pairwise distinct (compared case-sensitively); a candidate whose topic  *)
(* is empty after trimming is skipped and counted neither as accepted nor  *)
(* as duplicate.                                                           *)
(***************************************************************************)
C13_Blank(s) == \A k \in DOMAIN s : s[k] = " "

C13_TopicsWellFormed ==
    /\ \A i \in DOMAIN ideas :
          LET t == ideas[i].topic
          IN  /\ Len(t) >= 1
              /\ t[1] # " "
              /\ t[Len(t)] # " "
    /\ \A i, j \in DOMAIN ideas : i # j => ideas[i].topic # ideas[j].topic

\* the loop stands before a candidate whose topic is blank
C13_AtBlankCandidate ==
    /\ pc = "i_loop"
    /\ idx <= Len(raw_ideas)
    /\ raw_ideas[idx].kind = "dict"
    /\ C13_Blank(raw_ideas[idx].topic)

C13_BlankSkipped ==
    (C13_AtBlankCandidate /\ vars' # vars) =>
        /\ pc' = "i_loop"
        /\ idx' = idx + 1
        /\ new_count' = new_count
        /\ duplicate_count' = duplicate_count
        /\ ideas' = ideas
        /\ existing_topics' = existing_topics

\* C13: persisted topics are non-empty, trimmed and distinct; a candidate
\* with a blank topic is skipped without being counted
C13_TopicsTrimmedDistinct == [](C13_TopicsWellFormed) /\ [][C13_BlankSkipped]_vars

\* the batch [" a ", " "] met a store that held "A": "a" was stored trimmed
\* beside "A", the blank candidate was passed over
C13_Witness ==
    /\ pc = "i_loop"
    /\ raw_ideas = << [kind |-> "dict", topic |-> <<" ", "a", " ">>],
                      [kind |-> "dict", topic |-> <<" ">>] >>
    /\ idx = 3
    /\ new_count = 1
    /\ duplicate_count = 0
    /\ { <<"a">>, <<"A">> } \subseteq Topics(ideas)

====
